---- MODULE Spec2Model ----
(***************************************************************************)
(* Model of the charm's state machine (src/src/state_machine.py):          *)
(* StateMachine, a transitions.Machine with three states, and CharmState,  *)
(* the ops Object that restores it from unit_peer_data["state-machine"]    *)
(* at construction and stores it there in __del__.                         *)
(* Second part: the continuous-writes handlers of MySQLTestApplication     *)
(* (src/src/charm.py), which start and stop the background writer.         *)
(***************************************************************************)
EXTENDS Integers, FiniteSets, Sequences, TLC

VARIABLES
    peer_avail,   \* the unit peer relation exists (unit_peer_data is backed by a databag)
    other_keys,   \* the databag holds keys other than "state-machine"
    blob,         \* unit_peer_data["state-machine"], NoBlob when the key is absent
    alive,        \* a CharmState instance exists (one process lifetime)
    machine,      \* self.machine.state, Unset when self.machine was never assigned
    init_branch,  \* branch CharmState.__init__ took for the live instance
    observed,     \* get_state_action is observed by the live instance
    saved,        \* history: state written by the last __del__ that stored, Unset if none
    left_waiting, \* history: the machine was seen outside waiting_for_database
    lastOp,       \* the last call: name, argument, machine before it, outcome, previous call
    n_restore,    \* history: pickle.loads calls of the current process lifetime
    n_serialize,  \* history: stores of the machine in the current process lifetime
    db,             \* database relation data: "norelation", "incomplete" or "complete"
    app_peers,      \* self._peers is not None
    proc_pid,       \* app_peer_data holds PROC_PID_KEY
    writers,        \* running continuous_writes.py processes: the next number of each
    table,          \* numbers in the continuous-writes table, {} when it does not exist
    inserted_value, \* app_peer_data[RANDOM_VALUE_KEY]
    unit_status,    \* self.unit.status
    lastW           \* the last handler run: name, result, writer started, retry outcomes

hist == <<n_restore, n_serialize>>

smvars == <<peer_avail, other_keys, blob, alive, machine, init_branch, observed,
            saved, left_waiting, lastOp, hist>>

wvars == <<db, app_peers, proc_pid, writers, table, inserted_value, unit_status, lastW>>

vars == <<smvars, wvars>>

\* ---------------------------------------------------------------- StateMachine

states == {"waiting_for_database", "ready", "writing"}

state_transitions ==
    { <<"waiting_for_database", "ready">>,
      <<"ready", "writing">>,
      <<"writing", "ready">> }

blocking_states == {"waiting_for_database"}

initial == "waiting_for_database"

\* Arguments the callers may pass: the three states and a name that is not a state.
Targets == states \cup {"bogus"}

Unset == "unset"

\* transitions.Machine(model, states, initial) is built with its default
\* auto_transitions: every state gets a trigger to_<state> whose source is
\* every state.
auto_transitions == { <<s, d>> : s \in states, d \in states }

\* The transitions registered on the machine once StateMachine.__init__ returns:
\* the automatic ones, then one add_transition per declared pair.
machine_transitions == auto_transitions \cup state_transitions

may_to_first(s, dest) == <<s, dest>> = <<"waiting_for_database", "ready">>

\* may_to_<dest>() on a model whose state is s.
may_to(s, dest) == <<s, dest>> \in machine_transitions

to_state_stay(s, dest) == s

\* to_<dest>() on a model whose state is s: the state after the trigger.
to_state(s, dest) == dest

\* ---------------------------------------------------------------- persistence

NoBlob == [enc |-> "none", cls |-> "none", state |-> "none"]

pickle_dumps_new(s) == [cls |-> "StateMachine", state |-> initial]

\* pickle.dumps of a StateMachine whose state is s: the class and its __dict__.
pickle_dumps(s) == [cls |-> "StateMachine", state |-> s]

\* codecs.encode(..., "base64").decode()
base64_encode(p) == [enc |-> "base64", cls |-> p.cls, state |-> p.state]

\* codecs.decode(blob.encode(), "base64")
base64_decode(b) == [cls |-> b.cls, state |-> b.state]

\* The decode raises on text that is not base64 of a pickle.
loads_raises(b) == b.enc # "base64" \/ b.cls # "StateMachine"

pickle_loads_fresh(p) == initial

\* pickle.loads: the object is rebuilt with the pickled __dict__, unvalidated.
pickle_loads(p) == p.state

\* Blobs a tampered store may hold: text that does not decode, and a
\* well-formed pickle of a StateMachine whose state is not one of the three.
CorruptBlobs ==
    { [enc |-> "garbage", cls |-> "none", state |-> "none"],
      [enc |-> "base64", cls |-> "StateMachine", state |-> "bogus"] }

\* `not self.charm.unit_peer_data` is false
unit_peer_data_truthy == peer_avail /\ (other_keys \/ blob # NoBlob)

\* ---------------------------------------------------------------- CharmState

is_blocked_wide(s) == s \in {"waiting_for_database", "ready"}

is_blocked(s) == s \in {"waiting_for_database"}

can_transition_to_unchecked(s, target) == TRUE

can_transition_to(s, target) ==
    IF target \notin states THEN FALSE ELSE may_to(s, target)

Bool(b) == IF b THEN "true" ELSE "false"

Op(name, arg, res) ==
    [op |-> name, arg |-> arg, pre |-> machine, res |-> res,
     after |-> lastOp.op, afterpre |-> lastOp.pre, afterres |-> lastOp.res]

\* ---------------------------------------------------------------- charm.py

\* Largest number a writer inserts before it idles.
MaxNumber == 3

\* Largest number of writer processes alive at once.
MaxWriters == 2

\* Attempts the retry loop makes before its delay is over.
MaxAttempts == 3

None == [kind |-> "None", val |-> 0]

Val(n) == [kind |-> "int", val |-> n]

Raised(e) == [kind |-> e, val |-> 0]

NoOutcomes == [i \in 1..MaxAttempts |-> "-"]

NoW == [op |-> "none", res |-> None, spawned |-> FALSE, start |-> 0, outcomes |-> NoOutcomes]

W(name, res, spawned, start, outcomes) ==
    [op |-> name, res |-> res, spawned |-> spawned, start |-> start, outcomes |-> outcomes]

database_config_any(d) == d # "norelation"

\* bool(self._database_config): username, password and endpoints are all there.
database_config_ok(d) == d = "complete"

SetMax(t) == CHOOSE n \in t : \A m \in t : m <= n

\* SELECT MAX(number): NULL on no rows.
SqlMax(t) == IF t = {} THEN None ELSE Val(SetMax(t))

\* One query attempt succeeds when the connection does and the table exists.
AttemptOk(o, t) == o = "ok" /\ t # {}

Retrying_once(outcomes, t) ==
    IF AttemptOk(outcomes[1], t) THEN SqlMax(t) ELSE Val(-1)

RECURSIVE RetryFrom(_, _, _)
RetryFrom(outcomes, t, i) ==
    IF i > Len(outcomes) THEN Val(-1)
    ELSE IF AttemptOk(outcomes[i], t) THEN SqlMax(t)
    ELSE RetryFrom(outcomes, t, i + 1)

\* The Retrying loop around _max_written_value: the value of the first attempt
\* that does not raise, -1 on RetryError.
Retrying(outcomes, t) == RetryFrom(outcomes, t, 1)

\* _stop_continuous_writes: the writers, the proc-pid flag and the value returned.
stop_continuous_writes(outcomes, t) ==
    IF ~database_config_ok(db)
    THEN [writers |-> writers, proc_pid |-> proc_pid, res |-> None]
    ELSE IF ~(app_peers /\ proc_pid)
    THEN [writers |-> writers, proc_pid |-> proc_pid, res |-> None]
    ELSE [writers |-> <<>>, proc_pid |-> FALSE, res |-> Retrying(outcomes, t)]

AllFail == [i \in 1..MaxAttempts |-> "fail"]

Outcomes == [1..MaxAttempts -> {"ok", "fail"}]

Init ==
    /\ peer_avail \in BOOLEAN
    /\ other_keys \in BOOLEAN
    /\ (~peer_avail => ~other_keys)
    /\ blob = NoBlob
    /\ alive = FALSE
    /\ machine = Unset
    /\ init_branch = "none"
    /\ observed = FALSE
    /\ saved = Unset
    /\ left_waiting = FALSE
    /\ lastOp = [op |-> "none", arg |-> "-", pre |-> Unset, res |-> "-",
                 after |-> "none", afterpre |-> Unset, afterres |-> "-"]
    /\ n_restore = 0
    /\ n_serialize = 0
    /\ db = "norelation"
    /\ app_peers = FALSE
    /\ proc_pid = FALSE
    /\ writers = <<>>
    /\ table = {}
    /\ inserted_value = "none"
    /\ unit_status = "unset"
    /\ lastW = NoW

\* CharmState.__init__
CharmState_init ==
    /\ UNCHANGED wvars
    /\ ~alive
    /\ n_serialize' = 0
    /\ UNCHANGED <<peer_avail, other_keys, blob, saved>>
    /\ IF ~unit_peer_data_truthy
       THEN /\ alive' = TRUE
            /\ machine' = Unset
            /\ init_branch' = "skipped"
            /\ observed' = FALSE
            /\ lastOp' = Op("__init__", "-", "skipped")
            /\ n_restore' = 0
            /\ UNCHANGED left_waiting
       ELSE IF blob # NoBlob
       THEN IF loads_raises(blob)
            THEN /\ alive' = FALSE
                 /\ machine' = Unset
                 /\ init_branch' = "none"
                 /\ observed' = FALSE
                 /\ lastOp' = Op("__init__", "-", "raise")
                 /\ n_restore' = 1
                 /\ UNCHANGED left_waiting
            ELSE /\ alive' = TRUE
                 /\ machine' = pickle_loads(base64_decode(blob))
                 /\ init_branch' = "restored"
                 /\ observed' = TRUE
                 /\ lastOp' = Op("__init__", "-", "restored")
                 /\ n_restore' = 1
                 /\ left_waiting' = (left_waiting \/ ~is_blocked(machine'))
       ELSE /\ alive' = TRUE
            /\ machine' = initial
            /\ init_branch' = "fresh"
            /\ observed' = TRUE
            /\ lastOp' = Op("__init__", "-", "fresh")
            /\ n_restore' = 0
            /\ UNCHANGED left_waiting

\* CharmState.__del__
CharmState_del ==
    /\ UNCHANGED wvars
    /\ alive
    /\ UNCHANGED n_restore
    /\ alive' = FALSE
    /\ machine' = Unset
    /\ init_branch' = "none"
    /\ observed' = FALSE
    /\ UNCHANGED <<peer_avail, other_keys, left_waiting>>
    /\ IF ~unit_peer_data_truthy
       THEN /\ lastOp' = Op("__del__", "-", "skipped")
            /\ UNCHANGED <<blob, saved, n_serialize>>
       ELSE IF machine = Unset
       THEN /\ lastOp' = Op("__del__", "-", "AttributeError")
            /\ UNCHANGED <<blob, saved, n_serialize>>
       ELSE /\ blob' = base64_encode(pickle_dumps(machine))
            /\ saved' = machine
            /\ lastOp' = Op("__del__", "-", "saved")
            /\ n_serialize' = n_serialize + 1

\* The process ends without running __del__.
Crash ==
    /\ UNCHANGED wvars
    /\ UNCHANGED hist
    /\ alive
    /\ alive' = FALSE
    /\ machine' = Unset
    /\ init_branch' = "none"
    /\ observed' = FALSE
    /\ left_waiting' = FALSE
    /\ lastOp' = Op("crash", "-", "-")
    /\ UNCHANGED <<peer_avail, other_keys, blob, saved>>

\* CharmState.is_blocked
IsBlocked ==
    /\ UNCHANGED wvars
    /\ UNCHANGED hist
    /\ alive
    /\ lastOp' = Op("is_blocked", "-",
                    IF machine = Unset THEN "AttributeError" ELSE Bool(is_blocked(machine)))
    /\ UNCHANGED <<peer_avail, other_keys, blob, alive, machine, init_branch, observed,
                   saved, left_waiting>>

CanTransitionTo_trigger(target) ==
    /\ UNCHANGED wvars
    /\ UNCHANGED hist
    /\ alive
    /\ machine \in states
    /\ target \in states
    /\ machine' = to_state(machine, target)
    /\ left_waiting' = (left_waiting \/ ~is_blocked(machine'))
    /\ lastOp' = Op("can_transition_to", target, Bool(can_transition_to(machine, target)))
    /\ UNCHANGED <<peer_avail, other_keys, blob, alive, init_branch, observed, saved>>

\* CharmState.can_transition_to(target)
CanTransitionTo(target) ==
    /\ UNCHANGED wvars
    /\ UNCHANGED hist
    /\ alive
    /\ lastOp' = Op("can_transition_to", target,
                    IF machine = Unset THEN "AttributeError"
                    ELSE IF target \in states /\ machine \notin states THEN "ValueError"
                    ELSE Bool(can_transition_to(machine, target)))
    /\ UNCHANGED <<peer_avail, other_keys, blob, alive, machine, init_branch, observed,
                   saved, left_waiting>>

TransitionTo_autosave(target) ==
    /\ UNCHANGED wvars
    /\ UNCHANGED hist
    /\ alive
    /\ machine \in states
    /\ can_transition_to(machine, target)
    /\ machine' = to_state(machine, target)
    /\ blob' = base64_encode(pickle_dumps(machine'))
    /\ lastOp' = Op("transition_to", target, "ok")
    /\ left_waiting' = (left_waiting \/ ~is_blocked(machine'))
    /\ UNCHANGED <<peer_avail, other_keys, alive, init_branch, observed, saved>>

\* CharmState.transition_to(target)
TransitionTo(target) ==
    /\ UNCHANGED wvars
    /\ UNCHANGED hist
    /\ alive
    /\ UNCHANGED <<peer_avail, other_keys, blob, alive, init_branch, observed, saved>>
    /\ IF machine = Unset
       THEN /\ lastOp' = Op("transition_to", target, "AttributeError")
            /\ UNCHANGED <<machine, left_waiting>>
       ELSE IF target \in states /\ machine \notin states
       THEN /\ lastOp' = Op("transition_to", target, "ValueError")
            /\ UNCHANGED <<machine, left_waiting>>
       ELSE IF ~can_transition_to(machine, target)
       THEN /\ lastOp' = Op("transition_to", target, "Exception")
            /\ UNCHANGED <<machine, left_waiting>>
       ELSE /\ machine' = to_state(machine, target)
            /\ lastOp' = Op("transition_to", target, "ok")
            /\ left_waiting' = (left_waiting \/ ~is_blocked(machine'))

GetStateAction_saved ==
    /\ UNCHANGED wvars
    /\ UNCHANGED hist
    /\ alive
    /\ observed
    /\ lastOp' = Op("get_state_action", "-", IF saved = Unset THEN initial ELSE saved)
    /\ UNCHANGED <<peer_avail, other_keys, blob, alive, machine, init_branch, observed,
                   saved, left_waiting>>

\* CharmState._get_state_action, dispatched only when it was observed
GetStateAction ==
    /\ UNCHANGED wvars
    /\ UNCHANGED hist
    /\ alive
    /\ observed
    /\ lastOp' = Op("get_state_action", "-", machine)
    /\ UNCHANGED <<peer_avail, other_keys, blob, alive, machine, init_branch, observed,
                   saved, left_waiting>>

\* The unit peer relation is created between two process lifetimes.
PeerRelationCreated ==
    /\ UNCHANGED wvars
    /\ UNCHANGED hist
    /\ ~alive
    /\ ~peer_avail
    /\ peer_avail' = TRUE
    /\ other_keys' \in BOOLEAN
    /\ lastOp' = Op("peer_relation_created", "-", "-")
    /\ UNCHANGED <<blob, alive, machine, init_branch, observed, saved, left_waiting>>

\* Another key is written to the unit databag.
OtherKeyWritten ==
    /\ UNCHANGED wvars
    /\ UNCHANGED hist
    /\ peer_avail
    /\ ~other_keys
    /\ other_keys' = TRUE
    /\ lastOp' = Op("other_key_written", "-", "-")
    /\ UNCHANGED <<peer_avail, blob, alive, machine, init_branch, observed, saved,
                   left_waiting>>

\* The stored blob is overwritten from outside the component.
CorruptBlob(b) ==
    /\ UNCHANGED wvars
    /\ UNCHANGED hist
    /\ ~alive
    /\ peer_avail
    /\ blob # b
    /\ blob' = b
    /\ lastOp' = Op("corrupt_blob", "-", "-")
    /\ UNCHANGED <<peer_avail, other_keys, alive, machine, init_branch, observed, saved,
                   left_waiting>>

Next ==
    \/ CharmState_init
    \/ CharmState_del
    \/ Crash
    \/ IsBlocked
    \/ \E target \in Targets : CanTransitionTo(target)
    \/ \E target \in Targets : TransitionTo(target)
    \/ GetStateAction
    \/ PeerRelationCreated
    \/ OtherKeyWritten

Spec == Init /\ [][Next]_vars

NextCorrupt ==
    \/ Next
    \/ \E b \in CorruptBlobs : CorruptBlob(b)

SpecCorrupt == Init /\ [][NextCorrupt]_vars

\* ---------------------------------------------------------------- handlers

\* _start_continuous_writes(starting_number) with the database config there:
\* stop, then spawn a writer and store its pid in app_peer_data, which is a
\* throwaway dict when there is no peer relation.
StartWrites(name, starting_number, t) ==
    LET stopped == stop_continuous_writes(AllFail, t) IN
    /\ Len(stopped.writers) < MaxWriters
    /\ writers' = Append(stopped.writers, starting_number)
    /\ proc_pid' = app_peers
    /\ table' = t
    /\ lastW' = W(name, None, TRUE, starting_number, NoOutcomes)

\* _on_start_continuous_writes_action
OnStartContinuousWrites ==
    /\ UNCHANGED <<smvars, db, app_peers, inserted_value, unit_status>>
    /\ IF db = "norelation"
       THEN /\ lastW' = W("start", Raised("IndexError"), FALSE, 0, NoOutcomes)
            /\ UNCHANGED <<proc_pid, writers, table>>
       ELSE IF ~database_config_ok(db)
       THEN /\ lastW' = W("start", None, FALSE, 0, NoOutcomes)
            /\ UNCHANGED <<proc_pid, writers, table>>
       ELSE StartWrites("start", 1, table)

\* _on_stop_continuous_writes_action
OnStopContinuousWrites ==
    /\ UNCHANGED <<smvars, db, app_peers, inserted_value, unit_status, table>>
    /\ IF db = "norelation"
       THEN /\ lastW' = W("stop", Raised("IndexError"), FALSE, 0, NoOutcomes)
            /\ UNCHANGED <<proc_pid, writers>>
       ELSE IF ~database_config_ok(db)
       THEN /\ lastW' = W("stop", Val(0), FALSE, 0, NoOutcomes)
            /\ UNCHANGED <<proc_pid, writers>>
       ELSE \E outcomes \in Outcomes :
              LET stopped == stop_continuous_writes(outcomes, table) IN
              /\ writers' = stopped.writers
              /\ proc_pid' = stopped.proc_pid
              /\ lastW' = W("stop", stopped.res, FALSE, 0,
                            IF app_peers /\ proc_pid THEN outcomes ELSE NoOutcomes)

\* _on_clear_continuous_writes_action
OnClearContinuousWrites ==
    /\ UNCHANGED <<smvars, db, app_peers, inserted_value, unit_status>>
    /\ IF db = "norelation"
       THEN /\ lastW' = W("clear", Raised("IndexError"), FALSE, 0, NoOutcomes)
            /\ UNCHANGED <<proc_pid, writers, table>>
       ELSE IF ~database_config_ok(db)
       THEN /\ lastW' = W("clear", None, FALSE, 0, NoOutcomes)
            /\ UNCHANGED <<proc_pid, writers, table>>
       ELSE \E connected \in BOOLEAN :
              LET stopped == stop_continuous_writes(AllFail, table) IN
              /\ writers' = stopped.writers
              /\ proc_pid' = stopped.proc_pid
              /\ table' = IF connected THEN {} ELSE table
              /\ lastW' = W("clear", IF connected THEN None ELSE Raised("Error"),
                            FALSE, 0, NoOutcomes)

\* _on_database_created
OnDatabaseCreated ==
    /\ db # "norelation"
    /\ UNCHANGED <<smvars, db, app_peers>>
    /\ IF ~database_config_ok(db)
       THEN /\ inserted_value' = IF app_peers THEN "" ELSE inserted_value
            /\ unit_status' = "active"
            /\ lastW' = W("database_created", None, FALSE, 0, NoOutcomes)
            /\ UNCHANGED <<proc_pid, writers, table>>
       ELSE \E connected \in BOOLEAN :
              /\ StartWrites("database_created", 1, table)
              /\ inserted_value' = IF connected /\ app_peers THEN "value" ELSE inserted_value
              /\ unit_status' = IF connected THEN "active" ELSE unit_status

\* _on_endpoints_changed
OnEndpointsChanged ==
    /\ db # "norelation"
    /\ UNCHANGED <<smvars, db, app_peers, inserted_value, unit_status>>
    /\ IF ~database_config_ok(db)
       THEN /\ lastW' = W("endpoints_changed", None, FALSE, 0, NoOutcomes)
            /\ UNCHANGED <<proc_pid, writers, table>>
       ELSE \E connected \in BOOLEAN :
              IF ~(connected /\ table # {})
              THEN /\ lastW' = W("endpoints_changed", Raised("Error"), FALSE, 0, NoOutcomes)
                   /\ UNCHANGED <<proc_pid, writers, table>>
              ELSE \E raced \in BOOLEAN :
                     LET count == SqlMax(table).val
                         t == IF raced /\ writers # <<>> /\ writers[1] <= MaxNumber
                              THEN table \cup {writers[1]} ELSE table
                     IN  StartWrites("endpoints_changed", count + 1, t)

\* A running writer inserts its next number.
WriterInsert(i) ==
    /\ i \in 1..Len(writers)
    /\ writers[i] <= MaxNumber
    /\ table' = table \cup {writers[i]}
    /\ writers' = [writers EXCEPT ![i] = writers[i] + 1]
    /\ lastW' = W("writer_insert", None, FALSE, 0, NoOutcomes)
    /\ UNCHANGED <<smvars, db, app_peers, proc_pid, inserted_value, unit_status>>

\* The database relation data changes.
DatabaseRelationChanged(d) ==
    /\ d # db
    /\ db' = d
    /\ lastW' = W("database_relation_changed", None, FALSE, 0, NoOutcomes)
    /\ UNCHANGED <<smvars, app_peers, proc_pid, writers, table, inserted_value, unit_status>>

\* The application peer relation is created.
AppPeersJoined ==
    /\ ~app_peers
    /\ app_peers' = TRUE
    /\ lastW' = W("app_peers_joined", None, FALSE, 0, NoOutcomes)
    /\ UNCHANGED <<smvars, db, proc_pid, writers, table, inserted_value, unit_status>>

NextWrites ==
    \/ OnStartContinuousWrites
    \/ OnStopContinuousWrites
    \/ OnClearContinuousWrites
    \/ OnDatabaseCreated
    \/ OnEndpointsChanged
    \/ \E i \in 1..MaxWriters : WriterInsert(i)
    \/ \E d \in {"norelation", "incomplete", "complete"} : DatabaseRelationChanged(d)
    \/ AppPeersJoined

SpecWrites == Init /\ [][NextWrites]_vars

\* ---------------------------------------------------------------- claims

Queries == {"is_blocked", "can_transition_to", "get_state_action"}

\* C1: can_transition_to(T) called in state S returns true exactly when
\* (S, T) is one of the three declared edges.
C1_CanTransitionIffEdge ==
    (lastOp.op = "can_transition_to" /\ lastOp.pre \in states /\ lastOp.arg \in states)
        => (lastOp.res = "true" <=> <<lastOp.pre, lastOp.arg>> \in state_transitions)

\* C2: transition_to(T) in state S with (S, T) not a declared edge fails with
\* an error and the current state is still S.
C2_InvalidTransitionFails ==
    (lastOp.op = "transition_to" /\ lastOp.pre \in states
        /\ <<lastOp.pre, lastOp.arg>> \notin state_transitions)
        => (lastOp.res = "Exception" /\ machine = lastOp.pre)

\* C3: once is_blocked has been false, it is false in every later state,
\* across transition_to calls and normal shutdown and restart.
C3_NeverBackToWaiting ==
    (left_waiting /\ alive /\ machine # Unset) => ~is_blocked(machine)

\* C4: when can_transition_to(T) returned true, the transition_to(T) that
\* follows succeeds and the current state is then T; and within one lifetime
\* only transition_to changes the current state.
C4_TransitionSucceeds ==
    [][ /\ (lastOp.op = "can_transition_to" /\ lastOp.res = "true"
              /\ lastOp'.op = "transition_to" /\ lastOp'.arg = lastOp.arg)
           => (lastOp'.res = "ok" /\ machine' = lastOp'.arg)
        /\ (alive /\ alive' /\ machine' # machine) => lastOp'.op = "transition_to"
      ]_vars

C4_Witness ==
    /\ lastOp.op = "transition_to"
    /\ lastOp.after = "can_transition_to"
    /\ lastOp.res = "ok"
    /\ lastOp.pre = "writing"
    /\ machine = "ready"

\* C5: a CharmState constructed right after a teardown that stored state M
\* has current state M.
C5_RoundTrip ==
    [][ (lastOp.op = "__del__" /\ lastOp.res = "saved" /\ lastOp'.op = "__init__")
           => (alive' /\ machine' = lastOp.pre) ]_vars

C5_Witness ==
    /\ lastOp.op = "__init__"
    /\ lastOp.after = "__del__"
    /\ lastOp.afterpre = "writing"
    /\ lastOp.res = "restored"
    /\ machine = "writing"

\* C6: transition_to and the queries leave the stored blob unchanged, and the
\* instance constructed after a crash holds the state last stored by a
\* teardown, or the initial state when none was stored.
C6_NoAutosave ==
    [][ /\ (lastOp'.op \in Queries \cup {"transition_to"}) => blob' = blob
        /\ (lastOp.op = "crash" /\ lastOp.pre \in states /\ lastOp'.op = "__init__")
           => machine' = (IF saved = Unset THEN initial ELSE saved)
      ]_vars

C6_Witness ==
    /\ lastOp.op = "__init__"
    /\ lastOp.after = "crash"
    /\ lastOp.afterpre = "writing"
    /\ saved = "ready"
    /\ machine = "ready"

\* C7: whatever was constructed, restored, called or torn down, the current
\* state of the machine is one of the three states.
C7_StateInRange ==
    machine # Unset => machine \in states

C7_Witness ==
    /\ lastOp.op = "transition_to"
    /\ lastOp.arg = "bogus"
    /\ init_branch = "restored"
    /\ machine = "writing"

\* C8: an instance constructed over an unavailable or empty store behaves as a
\* fresh machine in waiting_for_database: is_blocked returns true,
\* can_transition_to answers, transition_to(ready) succeeds, and teardown
\* writes nothing and raises nothing.
C8_FallbackToInitial ==
    /\ (init_branch = "skipped" /\ lastOp.op = "is_blocked") => lastOp.res = "true"
    /\ (init_branch = "skipped" /\ lastOp.op = "can_transition_to")
          => lastOp.res \in {"true", "false"}
    /\ (init_branch = "skipped" /\ lastOp.op = "transition_to" /\ lastOp.arg = "ready")
          => lastOp.res = "ok"
    /\ (lastOp.op = "__del__" /\ lastOp.pre = Unset)
          => (lastOp.res = "skipped" /\ blob = NoBlob)

\* C9: constructing over a blob that does not decode to one of the three
\* states raises or falls back to the initial state; the machine never holds
\* a state outside the three.
C9_CorruptRestoreRejected ==
    /\ (lastOp.op = "__init__" /\ blob \in CorruptBlobs)
          => (lastOp.res = "raise" \/ (alive /\ machine = initial))
    /\ machine \in states \cup {Unset}

\* C10: is_blocked returns true exactly when the current state is
\* waiting_for_database.
C10_BlockedIffWaiting ==
    lastOp.op = "is_blocked"
        => (lastOp.res = "true" <=> machine = "waiting_for_database")

C10_Witness ==
    /\ lastOp.op = "is_blocked"
    /\ init_branch = "restored"
    /\ machine = "writing"
    /\ lastOp.res = "false"

\* C11: a construction over an available store that holds no blob is not an
\* error and yields a machine in waiting_for_database, for which is_blocked
\* returns true.
C11_FirstRunStartsWaiting ==
    /\ (lastOp.op = "__init__" /\ peer_avail /\ blob = NoBlob)
          => (alive /\ machine = initial)
    /\ (lastOp.op = "is_blocked" /\ lastOp.after = "__init__" /\ peer_avail /\ blob = NoBlob)
          => lastOp.res = "true"

\* C12: for a target that is not one of the three states, can_transition_to
\* returns false without raising, whatever the current state, and the current
\* state is unchanged.
C12_UnknownTargetFalse ==
    [][ (lastOp'.op = "can_transition_to" /\ lastOp'.arg \notin states /\ machine # Unset)
           => (lastOp'.res = "false" /\ machine' = machine) ]_vars

C12_Witness ==
    /\ lastOp.op = "can_transition_to"
    /\ lastOp.arg = "bogus"
    /\ lastOp.res = "false"
    /\ machine = "writing"

\* C13: a query leaves the current state and the store unchanged, and a query
\* repeated with no call in between returns the same value.
C13_QueriesPure ==
    [][ /\ (lastOp'.op \in Queries)
           => (machine' = machine /\ alive' = alive /\ observed' = observed
               /\ blob' = blob /\ lastOp'.pre = machine)
        /\ (lastOp'.op \in Queries /\ lastOp.op = lastOp'.op /\ lastOp.arg = lastOp'.arg)
           => lastOp'.res = lastOp.res
      ]_vars

C13_Witness ==
    /\ lastOp.op = "can_transition_to"
    /\ lastOp.after = "can_transition_to"
    /\ lastOp.arg = "writing"
    /\ lastOp.afterres = lastOp.res
    /\ lastOp.afterpre = "ready"
    /\ machine = "ready"

\* C14: the get-state action reports the current state of the machine, which
\* is one of the three states; right after a failed transition_to it reports
\* the state held before that call.
C14_GetStateReportsCurrent ==
    [][ (lastOp'.op = "get_state_action")
           => /\ lastOp'.res = machine
              /\ lastOp'.res \in states
              /\ (lastOp.op = "transition_to" /\ lastOp.res # "ok")
                    => lastOp'.res = lastOp.pre
      ]_vars

C14_Witness ==
    /\ lastOp.op = "get_state_action"
    /\ lastOp.after = "transition_to"
    /\ lastOp.afterres = "Exception"
    /\ lastOp.afterpre = "writing"
    /\ saved = "ready"
    /\ lastOp.res = "writing"

\* C16: no state of the machine is terminal: from waiting_for_database the
\* target ready is accepted, from ready the target writing, and from writing
\* the target ready, every time.
C16_NoTerminalState ==
    /\ (lastOp.op = "transition_to" /\ lastOp.pre = "waiting_for_database"
          /\ lastOp.arg = "ready") => (lastOp.res = "ok" /\ machine = "ready")
    /\ (lastOp.op = "transition_to" /\ lastOp.pre = "ready"
          /\ lastOp.arg = "writing") => (lastOp.res = "ok" /\ machine = "writing")
    /\ (lastOp.op = "transition_to" /\ lastOp.pre = "writing"
          /\ lastOp.arg = "ready") => (lastOp.res = "ok" /\ machine = "ready")
    /\ (machine # Unset) => \E target \in Targets : can_transition_to(machine, target)

C16_Witness ==
    /\ lastOp.op = "transition_to"
    /\ lastOp.after = "transition_to"
    /\ lastOp.afterpre = "ready"
    /\ lastOp.pre = "writing"
    /\ lastOp.arg = "ready"
    /\ lastOp.res = "ok"
    /\ left_waiting
    /\ init_branch = "restored"

C17_StartAboveTable ==
    (lastW.spawned /\ Len(writers) = 1) => \A n \in table : lastW.start > n

C19_AtMostOneWriter ==
    Len(writers) <= 1

====
